---------------------------- MODULE Spec2Model ----------------------------
(***************************************************************************)
(* Model of the verify-image-signatures admission policy (src/src/lib.rs). *)
(*                                                                         *)
(* One admission request is processed from `validate` to its response.     *)
(* Strings are sequences of characters, Option<T> is a sequence of length  *)
(* at most one (<<>> is None, <<x>> is Some(x)), Vec<T> is a sequence.     *)
(* Every call of the verification oracle is one step whose answer is       *)
(* chosen nondeterministically.                                            *)
(***************************************************************************)
EXTENDS Integers, Sequences, FiniteSets, TLC

VARIABLES
    kind,                           \* validation_request.request.kind.kind
    object,                         \* validation_request.request.object
    signatures,                     \* validation_request.settings.signatures
    modify_images_with_digest,      \* validation_request.settings.modify_images_with_digest
    pc,                             \* position of the handler
    resource,                       \* validate_resource: the decoded resource (Option)
    spec,                           \* validate_resource: the extracted pod spec (Option)
    spec_images_with_digest,        \* verify_all_images_in_pod: working copy of the pod spec
    is_modified_with_digest,        \* verify_all_images_in_pod: change flag
    policy_verification_errors,     \* verify_all_images_in_pod: error list
    coll,                           \* which collection is being scanned (1, 2, 3)
    container_with_images_digests,  \* verify_container_images: working copy of the collection
    i,                              \* verify_container_images: container index
    j,                              \* verify_container_images: signature index
    k,                              \* Certificate arm: certificate index
    response,                       \* the last oracle answer (Option)
    calls,                          \* the oracle calls issued so far, in order
    verified,                       \* per container, the Ok answers handled for it, in order
    set_spec_calls,                 \* how many times set_spec was invoked
    last_answer,                    \* what the oracle answered to the latest call (Option)
    result                          \* the response of validate (Option)

vars == <<kind, object, signatures, modify_images_with_digest, pc, resource,
          spec, spec_images_with_digest, is_modified_with_digest,
          policy_verification_errors, coll, container_with_images_digests,
          i, j, k, response, calls, verified, set_spec_calls, last_answer,
          result>>

----------------------------------------------------------------------------
(* Option<T> *)

None == <<>>
Some(x) == <<x>>
IsSome(o) == o # <<>>
IsNone(o) == o = <<>>
Unwrap(o) == o[1]

----------------------------------------------------------------------------
(* Strings *)

\* str::contains: needle occurs as a contiguous substring of hay
Contains(hay, needle) ==
    \E s \in 0..(Len(hay) - Len(needle)) :
        SubSeq(hay, s + 1, s + Len(needle)) = needle

\* WildMatch::new(pattern).matches(text): '*' matches any (possibly empty)
\* sequence of characters, '?' matches exactly one character, every other
\* character matches itself; the whole text must be consumed.
RECURSIVE WildMatches(_, _)
WildMatches(pattern, text) ==
    IF pattern = <<>> THEN text = <<>>
    ELSE IF Head(pattern) = "*"
         THEN \/ WildMatches(Tail(pattern), text)
              \/ (text # <<>> /\ WildMatches(pattern, Tail(text)))
         ELSE /\ text # <<>>
              /\ (Head(pattern) = "?" \/ Head(pattern) = Head(text))
              /\ WildMatches(Tail(pattern), Tail(text))

\* [a, b].join(sep)
RECURSIVE Join(_, _)
Join(strs, sep) ==
    IF strs = <<>> THEN <<>>
    ELSE IF Len(strs) = 1 THEN strs[1]
    ELSE strs[1] \o sep \o Join(Tail(strs), sep)


----------------------------------------------------------------------------
(* Containers and pod specs *)

\* Container / EphemeralContainer: the image and the remaining fields
Container(name, image) == [name |-> name, image |-> image]

\* ImageHolder::get_image
get_image(container) == container.image

\* ImageHolder::set_image
set_image(container, image) == [container EXCEPT !.image = image]

\* PodSpec: the three container collections and the remaining fields
PodSpec(containers, init_containers, ephemeral_containers) ==
    [containers |-> containers,
     init_containers |-> init_containers,
     ephemeral_containers |-> ephemeral_containers,
     restart_policy |-> "Always"]

\* the collections of a pod spec in the order verify_all_images_in_pod
\* visits them: containers, init_containers, ephemeral_containers
CollectionOf(podspec, c) ==
    IF c = 1 THEN Some(podspec.containers)
    ELSE IF c = 2 THEN podspec.init_containers
    ELSE podspec.ephemeral_containers

\* a variant that assigns every rewritten collection to `containers`
WithCollection_misplaced(podspec, c, containers) ==
    [podspec EXCEPT !.containers = containers]

\* the assignment verify_all_images_in_pod makes for collection c
WithCollection(podspec, c, containers) ==
    IF c = 1 THEN [podspec EXCEPT !.containers = containers]
    ELSE IF c = 2 THEN [podspec EXCEPT !.init_containers = Some(containers)]
    ELSE [podspec EXCEPT !.ephemeral_containers = Some(containers)]

----------------------------------------------------------------------------
(* Resource Adapter: ValidatingResource for the eight kinds.  X_spec is    *)
(* spec(), X_set_spec is set_spec(), X_set_spec_faults says that one of    *)
(* the unwrap() calls of set_spec meets a None.                            *)

Metadata == [name |-> Some(<<"r">>)]

\* unwrap_or_default of metadata.name
name(r) == IF IsSome(r.metadata.name) THEN Unwrap(r.metadata.name) ELSE <<>>

Pod_spec(r) == r.spec
Pod_set_spec_faults(r) == FALSE
Pod_set_spec(r, s) == [r EXCEPT !.spec = Some(s)]

\* Deployment, StatefulSet, DaemonSet, Job: spec?.template.spec
Deployment_spec(r) ==
    IF IsNone(r.spec) THEN None ELSE Unwrap(r.spec).template.spec
Deployment_set_spec_faults(r) == IsNone(r.spec)
Deployment_set_spec(r, s) ==
    [r EXCEPT !.spec = Some([Unwrap(r.spec) EXCEPT !.template.spec = Some(s)])]

StatefulSet_spec(r) ==
    IF IsNone(r.spec) THEN None ELSE Unwrap(r.spec).template.spec
StatefulSet_set_spec_faults(r) == IsNone(r.spec)
StatefulSet_set_spec(r, s) ==
    [r EXCEPT !.spec = Some([Unwrap(r.spec) EXCEPT !.template.spec = Some(s)])]

DaemonSet_spec(r) ==
    IF IsNone(r.spec) THEN None ELSE Unwrap(r.spec).template.spec
DaemonSet_set_spec_faults(r) == IsNone(r.spec)
DaemonSet_set_spec(r, s) ==
    [r EXCEPT !.spec = Some([Unwrap(r.spec) EXCEPT !.template.spec = Some(s)])]

Job_spec(r) ==
    IF IsNone(r.spec) THEN None ELSE Unwrap(r.spec).template.spec
Job_set_spec_faults(r) == IsNone(r.spec)
Job_set_spec(r, s) ==
    [r EXCEPT !.spec = Some([Unwrap(r.spec) EXCEPT !.template.spec = Some(s)])]

\* ReplicaSet, ReplicationController: spec?.template?.spec
ReplicaSet_spec(r) ==
    IF IsNone(r.spec) THEN None
    ELSE IF IsNone(Unwrap(r.spec).template) THEN None
    ELSE Unwrap(Unwrap(r.spec).template).spec
ReplicaSet_set_spec_faults(r) ==
    IsNone(r.spec) \/ IsNone(Unwrap(r.spec).template)
ReplicaSet_set_spec(r, s) ==
    [r EXCEPT !.spec = Some([Unwrap(r.spec) EXCEPT !.template =
        Some([Unwrap(Unwrap(r.spec).template) EXCEPT !.spec = Some(s)])])]

ReplicationController_spec(r) ==
    IF IsNone(r.spec) THEN None
    ELSE IF IsNone(Unwrap(r.spec).template) THEN None
    ELSE Unwrap(Unwrap(r.spec).template).spec
ReplicationController_set_spec_faults(r) ==
    IsNone(r.spec) \/ IsNone(Unwrap(r.spec).template)
ReplicationController_set_spec(r, s) ==
    [r EXCEPT !.spec = Some([Unwrap(r.spec) EXCEPT !.template =
        Some([Unwrap(Unwrap(r.spec).template) EXCEPT !.spec = Some(s)])])]

\* CronJob: spec?.job_template.spec?.template.spec
CronJob_spec(r) ==
    IF IsNone(r.spec) THEN None
    ELSE IF IsNone(Unwrap(r.spec).job_template.spec) THEN None
    ELSE Unwrap(Unwrap(r.spec).job_template.spec).template.spec
CronJob_set_spec_faults(r) ==
    IsNone(r.spec) \/ IsNone(Unwrap(r.spec).job_template.spec)
\* a variant that leaves the job template as it was
CronJob_set_spec_dropped(r, s) == r

CronJob_set_spec(r, s) ==
    [r EXCEPT !.spec = Some([Unwrap(r.spec) EXCEPT !.job_template.spec =
        Some([Unwrap(Unwrap(r.spec).job_template.spec)
                 EXCEPT !.template.spec = Some(s)])])]

\* the kinds validate dispatches on
SupportedKinds ==
    {"Deployment", "ReplicaSet", "StatefulSet", "DaemonSet",
     "ReplicationController", "Job", "CronJob", "Pod"}

\* T::spec for the T validate chose for kind kd
SpecOf(kd, r) ==
    CASE kd = "Pod" -> Pod_spec(r)
      [] kd = "Deployment" -> Deployment_spec(r)
      [] kd = "ReplicaSet" -> ReplicaSet_spec(r)
      [] kd = "StatefulSet" -> StatefulSet_spec(r)
      [] kd = "DaemonSet" -> DaemonSet_spec(r)
      [] kd = "ReplicationController" -> ReplicationController_spec(r)
      [] kd = "Job" -> Job_spec(r)
      [] kd = "CronJob" -> CronJob_spec(r)

SetSpecFaults(kd, r) ==
    CASE kd = "Pod" -> Pod_set_spec_faults(r)
      [] kd = "Deployment" -> Deployment_set_spec_faults(r)
      [] kd = "ReplicaSet" -> ReplicaSet_set_spec_faults(r)
      [] kd = "StatefulSet" -> StatefulSet_set_spec_faults(r)
      [] kd = "DaemonSet" -> DaemonSet_set_spec_faults(r)
      [] kd = "ReplicationController" -> ReplicationController_set_spec_faults(r)
      [] kd = "Job" -> Job_set_spec_faults(r)
      [] kd = "CronJob" -> CronJob_set_spec_faults(r)

SetSpec(kd, r, s) ==
    CASE kd = "Pod" -> Pod_set_spec(r, s)
      [] kd = "Deployment" -> Deployment_set_spec(r, s)
      [] kd = "ReplicaSet" -> ReplicaSet_set_spec(r, s)
      [] kd = "StatefulSet" -> StatefulSet_set_spec(r, s)
      [] kd = "DaemonSet" -> DaemonSet_set_spec(r, s)
      [] kd = "ReplicationController" -> ReplicationController_set_spec(r, s)
      [] kd = "Job" -> Job_set_spec(r, s)
      [] kd = "CronJob" -> CronJob_set_spec(r, s)

\* serde_json::from_value::<T>(object): the object decodes only into the
\* shape it was encoded from
from_value(kd, obj) == IF obj.shape = kd THEN Some(obj.body) ELSE None

\* serde_json::to_value(&resource)
to_value(kd, r) == [shape |-> kd, body |-> r]

----------------------------------------------------------------------------
(* Responses of the admission framework *)

accept_request ==
    [accepted |-> TRUE, message |-> None, mutated_object |-> None]

reject_request(message) ==
    [accepted |-> FALSE, message |-> Some(message), mutated_object |-> None]

mutate_request(mutated_object) ==
    [accepted |-> TRUE, message |-> None, mutated_object |-> Some(mutated_object)]

----------------------------------------------------------------------------
(* Settings: the five Signature variants *)

PubKeys(image) ==
    [kind |-> "PubKeys", image |-> image, pub_keys |-> <<"key">>,
     annotations |-> None]

Keyless(image) ==
    [kind |-> "Keyless", image |-> image, keyless |-> <<"issuer-subject">>,
     annotations |-> None]

KeylessPrefix(image) ==
    [kind |-> "KeylessPrefix", image |-> image,
     keyless_prefix |-> <<"issuer-prefix">>, annotations |-> None]

GithubActions(image) ==
    [kind |-> "GithubActions", image |-> image,
     github_actions |-> [owner |-> "owner", repo |-> None],
     annotations |-> None]

Certificate(image, certificates) ==
    [kind |-> "Certificate", image |-> image, certificates |-> certificates,
     certificate_chain |-> None, require_rekor_bundle |-> TRUE,
     annotations |-> None]

----------------------------------------------------------------------------
(* The verification oracle: Result<VerificationResponse> *)

VerificationResponse(is_trusted, digest) ==
    [is_trusted |-> is_trusted, digest |-> digest]

Ok(verification_response) ==
    [is_err |-> FALSE, value |-> Some(verification_response), error |-> None]

Err(cause) == [is_err |-> TRUE, value |-> None, error |-> Some(cause)]

\* the oracle function the match arm of verify_container_images calls
OracleFunction(signature) ==
    CASE signature.kind = "PubKeys" -> "verify_pub_keys_image"
      [] signature.kind = "Keyless" -> "verify_keyless_exact_match"
      [] signature.kind = "KeylessPrefix" -> "verify_keyless_prefix_match"
      [] signature.kind = "GithubActions" -> "verify_keyless_github_actions"
      [] signature.kind = "Certificate" -> "verify_certificate"

\* the arguments after the image, as the match arm passes them
OracleArguments(signature, cert) ==
    CASE signature.kind = "PubKeys" ->
            <<signature.pub_keys, signature.annotations>>
      [] signature.kind = "Keyless" ->
            <<signature.keyless, signature.annotations>>
      [] signature.kind = "KeylessPrefix" ->
            <<signature.keyless_prefix, signature.annotations>>
      [] signature.kind = "GithubActions" ->
            <<signature.github_actions.owner, signature.github_actions.repo,
              signature.annotations>>
      [] signature.kind = "Certificate" ->
            <<signature.certificates[cert], signature.certificate_chain,
              signature.require_rekor_bundle, signature.annotations>>

\* one entry of the call record: what the oracle was asked, where in the
\* scan (collection, container, signature, certificate), and whether it
\* answered Ok
Call(signature, image, c, ci, si, cert, answer) ==
    [function |-> OracleFunction(signature), image |-> image,
     arguments |-> OracleArguments(signature, cert),
     coll |-> c, container |-> ci, signature |-> si, certificate |-> cert,
     ok |-> ~answer.is_err]

----------------------------------------------------------------------------
(* Digest Mutator and Result Aggregator *)

\* a variant that joins the digest and the image in the other order
add_digest_reversed(container_image, digest, container) ==
    IF ~Contains(container_image, digest)
    THEN set_image(container, Some(Join(<<digest, container_image>>, <<"@">>)))
    ELSE container

\* a variant that appends the digest without looking for it in the image
add_digest_always(container_image, digest, container) ==
    set_image(container, Some(Join(<<container_image, digest>>, <<"@">>)))

\* a variant that looks for the digest in the image of the working copy
\* and appends to it
add_digest_to_current(container_image, digest, container) ==
    IF ~Contains(Unwrap(get_image(container)), digest)
    THEN set_image(container,
                   Some(Join(<<Unwrap(get_image(container)), digest>>, <<"@">>)))
    ELSE container

\* a variant that looks for the digest only in the part of the image
\* before the first '@'
add_digest_if_not_in_name(container_image, digest, container) ==
    LET ats == {q \in 1..Len(container_image) : container_image[q] = "@"}
        image_name == IF ats = {} THEN container_image
                      ELSE SubSeq(container_image, 1,
                                  (CHOOSE q \in ats : \A r \in ats : q <= r) - 1)
    IN IF ~Contains(image_name, digest)
       THEN set_image(container, Some(Join(<<container_image, digest>>, <<"@">>)))
       ELSE container

\* add_digest_if_not_present: the container after the call
add_digest_if_not_present(container_image, digest, container) ==
    IF ~Contains(container_image, digest)
    THEN set_image(container, Some(Join(<<container_image, digest>>, <<"@">>)))
    ELSE container

\* format!("verification of image {container_image} failed: {e}")
VerificationError(container_image, e) ==
    <<"verification of image ">> \o container_image \o <<" failed: ">> \o e

\* a variant in which a failure is dropped when an earlier policy has
\* already pinned the container (any-of semantics)
handle_verification_response_any(answer, container_image, container, errors) ==
    IF ~answer.is_err
    THEN [container |-> add_digest_if_not_present(
                            container_image, Unwrap(answer.value).digest, container),
          errors |-> errors]
    ELSE [container |-> container,
          errors |-> IF get_image(container) # Some(container_image)
                     THEN errors
                     ELSE Append(errors,
                             VerificationError(container_image, Unwrap(answer.error)))]

\* a variant that puts the newest failure first
handle_verification_response_prepend(answer, container_image, container, errors) ==
    IF ~answer.is_err
    THEN [container |-> add_digest_if_not_present(
                            container_image, Unwrap(answer.value).digest, container),
          errors |-> errors]
    ELSE [container |-> container,
          errors |-> <<VerificationError(container_image, Unwrap(answer.error))>>
                        \o errors]

\* a variant that takes an outcome that is not trusted for a failure
handle_verification_response_trusted(answer, container_image, container, errors) ==
    IF ~answer.is_err /\ Unwrap(answer.value).is_trusted
    THEN [container |-> add_digest_if_not_present(
                            container_image, Unwrap(answer.value).digest, container),
          errors |-> errors]
    ELSE [container |-> container,
          errors |-> Append(errors,
                        VerificationError(container_image, <<"not trusted">>))]

\* handle_verification_response: the container and the error list after
\* the call
handle_verification_response(answer, container_image, container, errors) ==
    IF ~answer.is_err
    THEN [container |-> add_digest_if_not_present(
                            container_image, Unwrap(answer.value).digest, container),
          errors |-> errors]
    ELSE [container |-> container,
          errors |-> Append(errors,
                        VerificationError(container_image, Unwrap(answer.error)))]

\* format!("Resource {} is not accepted: {}", resource.name(), error)
RejectMessage(resource_name, error) ==
    <<"Resource ">> \o resource_name \o <<" is not accepted: ">> \o error

----------------------------------------------------------------------------
(* Bounds and the inputs drawn from them *)

MaxContainers == 2      \* containers of one pod spec, over the three collections
MaxSignatures == 2      \* policies of one request
MaxCertificates == 2    \* certificates of one Certificate policy
MaxCalls == 4           \* oracle calls one request can lead to

Images == {<<"n">>, <<"n", "@", "a">>}
Patterns == {<<"n">>, <<"n", "*">>}
Digests == {<<"a">>, <<"b">>, <<>>}
CertificateNames == <<"cert1", "cert2", "cert3", "cert4">>

\* what one oracle call may answer
OracleAnswers ==
    {Err(<<"error">>),
     Ok(VerificationResponse(TRUE, <<"a">>)),
     Ok(VerificationResponse(FALSE, <<"b">>)),
     Ok(VerificationResponse(TRUE, <<>>))}

SeqsUpTo(S, n) == UNION {[1..m -> S] : m \in 0..n}

ContainerLists(c, images, n) ==
    {[x \in 1..Len(imgs) |-> Container(<<c, x>>, imgs[x])] :
        imgs \in SeqsUpTo(images, n)}

OptionalContainerLists(c, images, n) ==
    {None} \cup {Some(l) : l \in ContainerLists(c, images, n) \ {<<>>}}

ContainerCount(podspec) ==
    Len(podspec.containers)
    + (IF IsSome(podspec.init_containers)
       THEN Len(Unwrap(podspec.init_containers)) ELSE 0)
    + (IF IsSome(podspec.ephemeral_containers)
       THEN Len(Unwrap(podspec.ephemeral_containers)) ELSE 0)

\* the pod specs of the scan requests: at most MaxContainers containers
\* over the three collections, every image present
ScanPodSpecs ==
    {ps \in {PodSpec(cs, ic, ec) :
                cs \in ContainerLists(1, {Some(im) : im \in Images}, MaxContainers),
                ic \in OptionalContainerLists(2, {Some(im) : im \in Images}, MaxContainers),
                ec \in OptionalContainerLists(3, {Some(im) : im \in Images}, MaxContainers)} :
        ContainerCount(ps) <= MaxContainers}

\* the pod specs of the kind requests: one primary container, whose image
\* may be absent
KindPodSpecs ==
    {PodSpec(<<Container(<<1, 1>>, im)>>, None, None) :
        im \in {None} \cup {Some(x) : x \in Images}}

CertificateLists ==
    {SubSeq(CertificateNames, 1, m) : m \in 0..MaxCertificates}

\* the policies of the scan requests: the glob is tested before the
\* variant is looked at, so the patterns vary on one variant only
ScanPolicies ==
    {PubKeys(p) : p \in Patterns}
    \cup {Certificate(<<"n", "*">>, cl) : cl \in CertificateLists}

KindPolicies ==
    {PubKeys(<<"n", "*">>), Keyless(<<"n", "*">>), KeylessPrefix(<<"n", "*">>),
     GithubActions(<<"n", "*">>), Certificate(<<"n", "*">>, <<"cert1">>)}

\* the resources of each kind: every optional node on the path to the
\* pod spec absent or present
ResourcesOf(kd, podspecs) ==
    LET leaf == {None} \cup {Some(ps) : ps \in podspecs}
        direct == {[template |-> [spec |-> o]] : o \in leaf}
        optional == {[template |-> t] :
                        t \in {None} \cup {Some([spec |-> o]) : o \in leaf}}
        cron == {[job_template |-> [spec |-> js]] :
                    js \in {None} \cup {Some([template |-> [spec |-> o]]) : o \in leaf}}
    IN CASE kd = "Pod" -> {[metadata |-> Metadata, spec |-> o] : o \in leaf}
         [] kd \in {"Deployment", "StatefulSet", "DaemonSet", "Job"} ->
                {[metadata |-> Metadata, spec |-> o] :
                    o \in {None} \cup {Some(x) : x \in direct}}
         [] kd \in {"ReplicaSet", "ReplicationController"} ->
                {[metadata |-> Metadata, spec |-> o] :
                    o \in {None} \cup {Some(x) : x \in optional}}
         [] kd = "CronJob" ->
                {[metadata |-> Metadata, spec |-> o] :
                    o \in {None} \cup {Some(x) : x \in cron}}

\* an object that decodes into none of the eight shapes
Garbage == [shape |-> "Service", body |-> [metadata |-> Metadata]]

AllKinds == SupportedKinds \cup {"Service"}

Request(kd, obj, sigs, modify) ==
    [kind |-> kd, object |-> obj, signatures |-> sigs, modify |-> modify]

\* the objects submitted under kind kd: one of its shape (a Pod for a
\* kind without a shape of its own), or garbage
ObjectsOf(kd) ==
    {Garbage} \cup
    (IF kd \in SupportedKinds
     THEN {to_value(kd, r) : r \in ResourcesOf(kd, KindPodSpecs)}
     ELSE {to_value("Pod", r) : r \in ResourcesOf("Pod", KindPodSpecs)})

\* requests of every kind and shape, with small pod specs and at most
\* one policy
KindRequests ==
    UNION {{Request(kd, obj, sigs, m) :
                obj \in ObjectsOf(kd),
                sigs \in {<<>>} \cup {<<sg>> : sg \in KindPolicies},
                m \in BOOLEAN} :
           kd \in AllKinds}

\* the oracle calls a policy needs for one container it applies to
CallsOf(signature) ==
    IF signature.kind = "Certificate" /\ Len(signature.certificates) > 1
    THEN Len(signature.certificates)
    ELSE 1

RECURSIVE CallsOfAll(_)
CallsOfAll(sigs) ==
    IF sigs = <<>> THEN 0 ELSE CallsOf(Head(sigs)) + CallsOfAll(Tail(sigs))

\* Pod requests with every pod spec and policy list within the bounds
ScanRequests ==
    UNION {{Request("Pod",
                    to_value("Pod", [metadata |-> Metadata, spec |-> Some(ps)]),
                    sigs, m) :
                sigs \in {sg \in SeqsUpTo(ScanPolicies, MaxSignatures) :
                             ContainerCount(ps) * CallsOfAll(sg) <= MaxCalls},
                m \in BOOLEAN} :
           ps \in ScanPodSpecs}

Requests == KindRequests \cup ScanRequests

----------------------------------------------------------------------------
(* The handler.  The locals of validate, validate_resource,                *)
(* verify_all_images_in_pod and verify_container_images are the fields of  *)
(* a record; each deterministic stretch of the code is an operator from    *)
(* record to record, and Run applies them up to the next oracle call.      *)

Locals ==
    [pc |-> pc, resource |-> resource, spec |-> spec,
     spec_images_with_digest |-> spec_images_with_digest,
     is_modified_with_digest |-> is_modified_with_digest,
     policy_verification_errors |-> policy_verification_errors,
     coll |-> coll,
     container_with_images_digests |-> container_with_images_digests,
     i |-> i, j |-> j, k |-> k, response |-> response,
     verified |-> verified, set_spec_calls |-> set_spec_calls,
     result |-> result]

Becomes(st) ==
    /\ pc' = st.pc
    /\ resource' = st.resource
    /\ spec' = st.spec
    /\ spec_images_with_digest' = st.spec_images_with_digest
    /\ is_modified_with_digest' = st.is_modified_with_digest
    /\ policy_verification_errors' = st.policy_verification_errors
    /\ coll' = st.coll
    /\ container_with_images_digests' = st.container_with_images_digests
    /\ i' = st.i
    /\ j' = st.j
    /\ k' = st.k
    /\ response' = st.response
    /\ verified' = st.verified
    /\ set_spec_calls' = st.set_spec_calls
    /\ result' = st.result

\* the containers of the collection being scanned (the `containers`
\* parameter of verify_container_images)
ContainersOf(st) == Unwrap(CollectionOf(Unwrap(st.spec), st.coll))

\* a variant that reads the image of the working copy
ContainerImage_current(st) ==
    Unwrap(get_image(st.container_with_images_digests[st.i]))

\* let container_image = container.get_image().unwrap()
ContainerImage(st) == Unwrap(get_image(ContainersOf(st)[st.i]))

\* the positions <<collection, index>> of the containers of a pod spec
Slots(podspec) ==
    UNION {{<<c, x>> : x \in 1..Len(Unwrap(CollectionOf(podspec, c)))} :
              c \in {c \in 1..3 : IsSome(CollectionOf(podspec, c))}}

\* a variant in which every policy applies to every image
PolicyApplies_always(signature, image) == TRUE

\* a variant in which the pattern, wildcards aside, only has to start the
\* image
PolicyApplies_prefix(signature, image) ==
    LET literal == SelectSeq(signature.image, LAMBDA ch : ch # "*")
    IN /\ Len(literal) <= Len(image)
       /\ SubSeq(image, 1, Len(literal)) = literal

\* !WildMatch::new(signature.image()).matches(container_image) is false
PolicyApplies(signature, image) == WildMatches(signature.image, image)

\* return of validate with response r
Respond(st, r) == [st EXCEPT !.result = Some(r), !.pc = "done"]

\* validate: dispatch on the kind
Validate(st) ==
    IF kind \in SupportedKinds
    THEN [st EXCEPT !.pc = "validate_resource"]
    ELSE Respond(st, accept_request)

\* a variant that rejects the object that does not decode
Decode_strict(st) ==
    LET decoded == from_value(kind, object)
    IN IF IsNone(decoded)
       THEN Respond(st, reject_request(<<"cannot decode">>))
       ELSE [st EXCEPT !.resource = decoded, !.pc = "spec"]

\* validate_resource: decode the object
Decode(st) ==
    LET decoded == from_value(kind, object)
    IN IF IsNone(decoded)
       THEN Respond(st, accept_request)
       ELSE [st EXCEPT !.resource = decoded, !.pc = "spec"]

\* a variant that rejects the resource without a pod spec
ExtractSpec_strict(st) ==
    LET sp == SpecOf(kind, Unwrap(st.resource))
    IN IF IsNone(sp)
       THEN Respond(st, reject_request(<<"no pod spec">>))
       ELSE [st EXCEPT !.spec = sp,
                       !.spec_images_with_digest = Unwrap(sp),
                       !.is_modified_with_digest = FALSE,
                       !.policy_verification_errors = <<>>,
                       !.verified = [sl \in Slots(Unwrap(sp)) |-> <<>>],
                       !.coll = 1,
                       !.pc = "collection"]

\* validate_resource: resource.spec(), then the entry of
\* verify_all_images_in_pod
ExtractSpec(st) ==
    LET sp == SpecOf(kind, Unwrap(st.resource))
    IN IF IsNone(sp)
       THEN Respond(st, accept_request)
       ELSE [st EXCEPT !.spec = sp,
                       !.spec_images_with_digest = Unwrap(sp),
                       !.is_modified_with_digest = FALSE,
                       !.policy_verification_errors = <<>>,
                       !.verified = [sl \in Slots(Unwrap(sp)) |-> <<>>],
                       !.coll = 1,
                       !.pc = "collection"]

\* verify_all_images_in_pod: the next collection, if present;
\* verify_container_images: containers.to_owned()
EnterCollection(st) ==
    LET c == CollectionOf(Unwrap(st.spec), st.coll)
    IN IF IsNone(c)
       THEN [st EXCEPT !.coll = st.coll + 1]
       ELSE [st EXCEPT !.container_with_images_digests = Unwrap(c),
                       !.i = 1,
                       !.pc = "container"]

\* verify_container_images: the head of the loop over the containers
EnterContainer(st) ==
    IF IsNone(get_image(ContainersOf(st)[st.i]))
    THEN [st EXCEPT !.pc = "panic"]
    ELSE [st EXCEPT !.j = 1, !.k = 1, !.pc = "signature"]

\* a variant that scans the ephemeral containers before the init
\* containers
LeaveCollection_reordered(st) ==
    LET present(c) == IsSome(CollectionOf(Unwrap(st.spec), c))
        after == IF st.coll = 1 THEN (IF present(3) THEN 3 ELSE 2)
                 ELSE IF st.coll = 3 /\ present(2) THEN 2
                 ELSE 4
    IN IF ContainersOf(st) # st.container_with_images_digests
       THEN [st EXCEPT !.spec_images_with_digest =
                           WithCollection(st.spec_images_with_digest, st.coll,
                                          st.container_with_images_digests),
                       !.is_modified_with_digest = TRUE,
                       !.coll = after,
                       !.pc = "collection"]
       ELSE [st EXCEPT !.coll = after, !.pc = "collection"]

\* a variant that adopts every scanned collection and raises the flag
\* without comparing
LeaveCollection_unconditional(st) ==
    [st EXCEPT !.spec_images_with_digest =
                   WithCollection(st.spec_images_with_digest, st.coll,
                                  st.container_with_images_digests),
               !.is_modified_with_digest = TRUE,
               !.coll = st.coll + 1,
               !.pc = "collection"]

\* verify_container_images returns; verify_all_images_in_pod adopts the
\* collection if it differs from the original
LeaveCollection(st) ==
    IF ContainersOf(st) # st.container_with_images_digests
    THEN [st EXCEPT !.spec_images_with_digest =
                        WithCollection(st.spec_images_with_digest, st.coll,
                                       st.container_with_images_digests),
                    !.is_modified_with_digest = TRUE,
                    !.coll = st.coll + 1,
                    !.pc = "collection"]
    ELSE [st EXCEPT !.coll = st.coll + 1, !.pc = "collection"]

\* the loop over the signatures is exhausted: next container
NextContainer(st) == [st EXCEPT !.i = st.i + 1, !.pc = "container"]

\* the pattern does not match: continue
SkipSignature(st) == [st EXCEPT !.j = st.j + 1]

\* a variant that leaves the scan on the first failure
Handle_fail_fast(st, answer) ==
    LET handled == handle_verification_response(
                       answer, ContainerImage(st),
                       st.container_with_images_digests[st.i],
                       st.policy_verification_errors)
    IN IF answer.is_err
       THEN [st EXCEPT !.policy_verification_errors = handled.errors,
                       !.response = None,
                       !.coll = 4,
                       !.pc = "collection"]
       ELSE [st EXCEPT !.container_with_images_digests[st.i] = handled.container,
                       !.verified = [st.verified EXCEPT ![<<st.coll, st.i>>] =
                                        Append(@, Unwrap(answer.value))],
                       !.response = None,
                       !.j = st.j + 1,
                       !.k = 1]

\* the call of handle_verification_response that ends the loop body
Handle(st, answer) ==
    LET handled == handle_verification_response(
                       answer, ContainerImage(st),
                       st.container_with_images_digests[st.i],
                       st.policy_verification_errors)
    IN [st EXCEPT !.container_with_images_digests[st.i] = handled.container,
                  !.policy_verification_errors = handled.errors,
                  !.verified = IF answer.is_err THEN st.verified
                               ELSE [st.verified EXCEPT ![<<st.coll, st.i>>] =
                                                            Append(@, Unwrap(answer.value))],
                  !.response = None,
                  !.j = st.j + 1,
                  !.k = 1]

\* a variant in which an empty certificate list verifies nothing and
\* fails nothing
NoCertificate_skipped(st) == SkipSignature(st)

\* Certificate with no certificates: the loop body never runs and the
\* initial Err("Cannot verify") is handled
NoCertificate(st) == Handle(st, Err(<<"Cannot verify">>))

\* a variant that tries every certificate and handles the last answer
CertificateAnswered_exhaustive(st, answer) ==
    IF st.k = Len(signatures[st.j].certificates)
    THEN Handle(st, answer)
    ELSE [st EXCEPT !.response = Some(answer), !.k = st.k + 1]

\* a variant that keeps the answer for the first certificate and handles
\* it when all certificates pass
CertificateAnswered_first(st, answer) ==
    IF answer.is_err
    THEN Handle(st, answer)
    ELSE IF st.k = Len(signatures[st.j].certificates)
         THEN Handle(st, IF IsSome(st.response) THEN Unwrap(st.response)
                         ELSE answer)
         ELSE [st EXCEPT !.response = IF IsSome(st.response) THEN st.response
                                      ELSE Some(answer),
                         !.k = st.k + 1]

\* Certificate: the end of one iteration of the loop over the
\* certificates; the loop is left on the first failure or after the last
\* certificate, and the last answer is handled
CertificateAnswered(st, answer) ==
    IF answer.is_err \/ st.k = Len(signatures[st.j].certificates)
    THEN Handle(st, answer)
    ELSE [st EXCEPT !.response = Some(answer), !.k = st.k + 1]

\* a variant that looks at the rewritten images before the failures
Aggregate_mutation_first(st) ==
    IF st.is_modified_with_digest
    THEN [st EXCEPT !.pc = "mutate"]
    ELSE IF st.policy_verification_errors # <<>>
         THEN Respond(st, reject_request(
                  RejectMessage(name(Unwrap(st.resource)),
                                Join(st.policy_verification_errors, <<", ">>))))
         ELSE Respond(st, accept_request)

\* a variant that rejects only when mutation is enabled
Aggregate_lenient(st) ==
    IF st.policy_verification_errors # <<>> /\ modify_images_with_digest
    THEN Respond(st, reject_request(
             RejectMessage(name(Unwrap(st.resource)),
                           Join(st.policy_verification_errors, <<", ">>))))
    ELSE IF ~st.is_modified_with_digest
         THEN Respond(st, accept_request)
         ELSE [st EXCEPT !.pc = "mutate"]

\* a variant that goes on to the mutation whenever no error was recorded
Aggregate_always_mutates(st) ==
    IF st.policy_verification_errors # <<>>
    THEN Respond(st, reject_request(
             RejectMessage(name(Unwrap(st.resource)),
                           Join(st.policy_verification_errors, <<", ">>))))
    ELSE [st EXCEPT !.pc = "mutate"]

\* verify_all_images_in_pod returns and validate_resource matches on it
Aggregate(st) ==
    IF st.policy_verification_errors # <<>>
    THEN Respond(st, reject_request(
             RejectMessage(name(Unwrap(st.resource)),
                           Join(st.policy_verification_errors, <<", ">>))))
    ELSE IF ~st.is_modified_with_digest
         THEN Respond(st, accept_request)
         ELSE [st EXCEPT !.pc = "mutate"]

\* a variant without the mutation gate
Mutate_ungated(st) ==
    IF SetSpecFaults(kind, Unwrap(st.resource))
    THEN [st EXCEPT !.set_spec_calls = st.set_spec_calls + 1,
                    !.pc = "panic"]
    ELSE LET mutated == SetSpec(kind, Unwrap(st.resource),
                                st.spec_images_with_digest)
         IN Respond([st EXCEPT !.resource = Some(mutated),
                               !.set_spec_calls = st.set_spec_calls + 1],
                    mutate_request(to_value(kind, mutated)))

\* validate_resource: the mutation gate, set_spec and mutate_request
Mutate(st) ==
    IF ~modify_images_with_digest
    THEN Respond(st, accept_request)
    ELSE IF SetSpecFaults(kind, Unwrap(st.resource))
         THEN [st EXCEPT !.set_spec_calls = st.set_spec_calls + 1,
                         !.pc = "panic"]
         ELSE LET mutated == SetSpec(kind, Unwrap(st.resource),
                                     st.spec_images_with_digest)
              IN Respond([st EXCEPT !.resource = Some(mutated),
                                    !.set_spec_calls = st.set_spec_calls + 1],
                         mutate_request(to_value(kind, mutated)))

\* the handler waits for the oracle: a policy applies to the current
\* container and has a call to make
AwaitsOracle(st) ==
    /\ st.pc = "signature"
    /\ st.j <= Len(signatures)
    /\ PolicyApplies(signatures[st.j], ContainerImage(st))
    /\ IF signatures[st.j].kind = "Certificate"
       THEN Len(signatures[st.j].certificates) > 0
       ELSE TRUE

\* the code from st up to the next oracle call, the response or the fault
RECURSIVE Run(_)
Run(st) ==
    CASE st.pc = "validate" -> Run(Validate(st))
      [] st.pc = "validate_resource" -> Run(Decode(st))
      [] st.pc = "spec" -> Run(ExtractSpec(st))
      [] st.pc = "collection" ->
            IF st.coll <= 3 THEN Run(EnterCollection(st)) ELSE Run(Aggregate(st))
      [] st.pc = "container" ->
            IF st.i <= Len(ContainersOf(st))
            THEN Run(EnterContainer(st))
            ELSE Run(LeaveCollection(st))
      [] st.pc = "signature" ->
            IF st.j > Len(signatures) THEN Run(NextContainer(st))
            ELSE IF ~PolicyApplies(signatures[st.j], ContainerImage(st))
                 THEN Run(SkipSignature(st))
            ELSE IF AwaitsOracle(st) THEN st
            ELSE Run(NoCertificate(st))
      [] st.pc = "mutate" -> Run(Mutate(st))
      [] OTHER -> st

Init ==
    /\ \E rq \in Requests :
          /\ kind = rq.kind
          /\ object = rq.object
          /\ signatures = rq.signatures
          /\ modify_images_with_digest = rq.modify
    /\ pc = "validate"
    /\ resource = None
    /\ spec = None
    /\ spec_images_with_digest = None
    /\ is_modified_with_digest = FALSE
    /\ policy_verification_errors = <<>>
    /\ coll = 1
    /\ container_with_images_digests = <<>>
    /\ i = 1
    /\ j = 1
    /\ k = 1
    /\ response = None
    /\ calls = <<>>
    /\ verified = <<>>
    /\ set_spec_calls = 0
    /\ last_answer = None
    /\ result = None

\* the request arrives: validate runs up to its first oracle call
Receive ==
    /\ pc = "validate"
    /\ \E st \in {Run(Locals)} : Becomes(st)
    /\ UNCHANGED <<kind, object, signatures, modify_images_with_digest, calls,
                   last_answer>>

\* PubKeys, Keyless, KeylessPrefix, GithubActions: the oracle answers the
\* one call of the pair
VerifySignature ==
    /\ AwaitsOracle(Locals)
    /\ signatures[j].kind # "Certificate"
    /\ \E answer \in OracleAnswers :
          /\ calls' = Append(calls, Call(signatures[j], ContainerImage(Locals),
                                         coll, i, j, 0, answer))
          /\ last_answer' = Some(answer)
          /\ \E st \in {Run(Handle(Locals, answer))} : Becomes(st)
    /\ UNCHANGED <<kind, object, signatures, modify_images_with_digest>>

\* Certificate: the oracle answers the call for certificate k
VerifyCertificate ==
    /\ AwaitsOracle(Locals)
    /\ signatures[j].kind = "Certificate"
    /\ \E answer \in OracleAnswers :
          /\ calls' = Append(calls, Call(signatures[j], ContainerImage(Locals),
                                         coll, i, j, k, answer))
          /\ last_answer' = Some(answer)
          /\ \E st \in {Run(CertificateAnswered(Locals, answer))} : Becomes(st)
    /\ UNCHANGED <<kind, object, signatures, modify_images_with_digest>>

Next ==
    \/ Receive
    \/ VerifySignature
    \/ VerifyCertificate

Spec == Init /\ [][Next]_vars

----------------------------------------------------------------------------
(* Vocabulary of the properties *)

\* validate has returned a response
Responded == pc = "done" /\ IsSome(result)

Response == Unwrap(result)

\* validate has returned after scanning a pod spec
Scanned == Responded /\ IsSome(spec)

\* the pod spec the request carries
SubmittedSpec == Unwrap(spec)

ContainerAt(podspec, sl) == Unwrap(CollectionOf(podspec, sl[1]))[sl[2]]

HasImage(sl) == IsSome(ContainerAt(SubmittedSpec, sl).image)

\* the image reference of the submitted container at position sl
ImageAt(sl) == Unwrap(ContainerAt(SubmittedSpec, sl).image)

\* the glob of the policy matches the whole reference
Matches(signature, image) == WildMatches(signature.image, image)

\* the policies (by index) matching the container at sl
MatchingPolicies(sl) ==
    {s \in 1..Len(signatures) : HasImage(sl) /\ Matches(signatures[s], ImageAt(sl))}

\* the (container, matching policy) pairs of the request
Pairs ==
    {p \in Slots(SubmittedSpec) \X (1..Len(signatures)) :
        p[2] \in MatchingPolicies(p[1])}

\* the oracle calls made for a pair, in order
CallsOfPair(sl, s) ==
    SelectSeq(calls, LAMBDA c : /\ c.coll = sl[1]
                                /\ c.container = sl[2]
                                /\ c.signature = s)

\* the pair was verified: each of its calls was made and answered Ok
PairVerified(sl, s) ==
    LET cs == CallsOfPair(sl, s)
    IN /\ \A n \in 1..Len(cs) : cs[n].ok
       /\ IF signatures[s].kind = "Certificate"
          THEN /\ Len(signatures[s].certificates) > 0
               /\ Len(cs) = Len(signatures[s].certificates)
          ELSE Len(cs) = 1

\* the pod spec of the resource the response carries
ReturnedSpec == Unwrap(SpecOf(kind, Unwrap(Response.mutated_object).body))

\* the working copy of the container at sl
WorkingContainer(sl) ==
    IF pc \in {"signature", "panic"} /\ coll = sl[1]
    THEN container_with_images_digests[sl[2]]
    ELSE ContainerAt(spec_images_with_digest, sl)

\* the digest of the last Ok answer handled for the container at sl
LastDigest(sl) == verified[sl][Len(verified[sl])].digest

Pinned(image, digest) == image \o <<"@">> \o digest

----------------------------------------------------------------------------
(* C1..C10 *)

\* C1: for a request that was scanned, the response is an accept if and
\* only if every (container, matching policy) pair of the three
\* collections was verified; one failing pair makes it a reject, whatever
\* the other pairs of the same container or of other containers did.
C1_AcceptIffAllPairsVerified ==
    Scanned =>
        (Response.accepted <=> \A p \in Pairs : PairVerified(p[1], p[2]))

\* a reject in which one container has a verified pair and a failed pair
C1_Witness ==
    /\ Scanned
    /\ ~Response.accepted
    /\ \E p \in Pairs, q \in Pairs :
          /\ p[1] = q[1]
          /\ PairVerified(p[1], p[2])
          /\ ~PairVerified(q[1], q[2])

\* C2: when a verification failure was recorded, the response carries no
\* mutated object, whatever modify_images_with_digest is and whatever was
\* rewritten in the working copy.
C2_NoMutationOnFailure ==
    (Responded /\ policy_verification_errors # <<>>) =>
        /\ Response.mutated_object = None
        /\ set_spec_calls = 0

\* a failure next to a rewritten container, with mutation enabled
C2_Witness ==
    /\ Responded
    /\ policy_verification_errors # <<>>
    /\ modify_images_with_digest
    /\ is_modified_with_digest
    /\ spec_images_with_digest # SubmittedSpec

\* C3: a container whose image matches no policy gets no oracle call and
\* no error; when no container matches any policy the request is accepted
\* with no mutated object and no oracle call.
C3_NoMatchNoCall ==
    IsSome(spec) =>
        /\ \A n \in 1..Len(calls) :
              /\ calls[n].signature \in
                    MatchingPolicies(<<calls[n].coll, calls[n].container>>)
              /\ calls[n].image = ImageAt(<<calls[n].coll, calls[n].container>>)
        /\ \A sl \in Slots(SubmittedSpec) :
              (HasImage(sl) /\ MatchingPolicies(sl) = {}) =>
                 \A n \in 1..Len(policy_verification_errors) :
                    \A cause \in {<<"error">>, <<"Cannot verify">>} :
                       policy_verification_errors[n] #
                          VerificationError(ImageAt(sl), cause)
        /\ (Responded /\ Pairs = {}) =>
              /\ result = Some(accept_request)
              /\ calls = <<>>

\* a scan with calls for one container and an unmatched second container
C3_Witness ==
    /\ Scanned
    /\ calls # <<>>
    /\ policy_verification_errors # <<>>
    /\ \E sl \in Slots(SubmittedSpec) : HasImage(sl) /\ MatchingPolicies(sl) = {}

\* C4 as stated: after a successful verification the response carries a
\* mutated resource if and only if modify_images_with_digest is set.
C4_Original ==
    (Scanned /\ calls # <<>> /\ policy_verification_errors = <<>>) =>
        (IsSome(Response.mutated_object) <=> modify_images_with_digest)

\* C4 (amended): after a successful verification the response carries a
\* mutated resource if and only if modify_images_with_digest is set and
\* some image was rewritten; with the flag unset it is the plain accept,
\* whether or not an image was rewritten.
C4_MutationGating ==
    (Scanned /\ policy_verification_errors = <<>>) =>
        /\ IsSome(Response.mutated_object) <=>
              (modify_images_with_digest /\ spec_images_with_digest # SubmittedSpec)
        /\ ~modify_images_with_digest => result = Some(accept_request)
        /\ Response.accepted

\* verification succeeded and rewrote an image, the flag is unset
C4_Witness ==
    /\ Scanned
    /\ policy_verification_errors = <<>>
    /\ ~modify_images_with_digest
    /\ spec_images_with_digest # SubmittedSpec
    /\ result = Some(accept_request)

C6_Frame ==
    /\ IsSome(spec) => spec = SpecOf(kind, Unwrap(from_value(kind, object)))
    /\ (Responded /\ IsSome(Response.mutated_object)) =>
          LET out == Unwrap(Response.mutated_object)
          IN /\ out.shape = object.shape
             /\ SetSpec(kind, out.body, SubmittedSpec) = object.body
             /\ ReturnedSpec.restart_policy = SubmittedSpec.restart_policy
             /\ \A c \in 1..3 :
                   IsSome(CollectionOf(ReturnedSpec, c)) =
                      IsSome(CollectionOf(SubmittedSpec, c))
             /\ Slots(ReturnedSpec) = Slots(SubmittedSpec)
             /\ \A sl \in Slots(SubmittedSpec) :
                   /\ ContainerAt(ReturnedSpec, sl).name =
                         ContainerAt(SubmittedSpec, sl).name
                   /\ (MatchingPolicies(sl) = {} \/ verified[sl] = <<>>) =>
                         ContainerAt(ReturnedSpec, sl) =
                            ContainerAt(SubmittedSpec, sl)
                   /\ set_image(ContainerAt(ReturnedSpec, sl),
                                ContainerAt(SubmittedSpec, sl).image) =
                         ContainerAt(SubmittedSpec, sl)

\* a returned resource with a rewritten container next to an unmatched one
C6_Witness ==
    /\ Responded
    /\ IsSome(Response.mutated_object)
    /\ \E sl \in Slots(SubmittedSpec), tl \in Slots(SubmittedSpec) :
          /\ sl[1] # tl[1]
          /\ MatchingPolicies(sl) = {}
          /\ ContainerAt(ReturnedSpec, tl) # ContainerAt(SubmittedSpec, tl)

\* C7: digest rewriting is idempotent: on an image that contains the
\* digest it changes nothing, and applying it twice equals applying it
\* once; so a pod whose images already contain the digests the oracle
\* returned is accepted with no mutated object, mutation enabled or not.
C7_Idempotent ==
    IsSome(spec) =>
        /\ \A sl \in Slots(SubmittedSpec) : \A d \in Digests :
              HasImage(sl) =>
                 LET cur == WorkingContainer(sl)
                     once == add_digest_if_not_present(Unwrap(cur.image), d, cur)
                     twice == add_digest_if_not_present(Unwrap(once.image), d, once)
                 IN /\ Contains(Unwrap(cur.image), d) => once = cur
                    /\ twice = once
        /\ \A sl \in Slots(SubmittedSpec) :
              verified[sl] # <<>> =>
                 Contains(Unwrap(WorkingContainer(sl).image), LastDigest(sl))
        /\ (/\ Responded
            /\ policy_verification_errors = <<>>
            /\ \A sl \in Slots(SubmittedSpec) : \A n \in 1..Len(verified[sl]) :
                  Contains(ImageAt(sl), verified[sl][n].digest)) =>
              result = Some(accept_request)

\* an image that carries the digest the oracle returned, mutation enabled
C7_Witness ==
    /\ Scanned
    /\ modify_images_with_digest
    /\ result = Some(accept_request)
    /\ \E sl \in Slots(SubmittedSpec) :
          /\ verified[sl] # <<>>
          /\ LastDigest(sl) # <<>>
          /\ Contains(ImageAt(sl), LastDigest(sl))

\* the index of the first failing call of a call sequence, 0 if none
FirstFailure(cs) ==
    IF \A n \in 1..Len(cs) : cs[n].ok
    THEN 0
    ELSE CHOOSE n \in 1..Len(cs) : ~cs[n].ok /\ \A m \in 1..(n - 1) : cs[m].ok

\* C8: a Certificate policy is tried certificate by certificate in list
\* order and stops at the first failure: the number of calls is the
\* position of the first failing certificate, or the length of the list
\* when all pass; the failure is recorded and the request is rejected.
C8_CertificateShortCircuit ==
    IsSome(spec) =>
        \A p \in Pairs :
            signatures[p[2]].kind = "Certificate" =>
               LET cs == CallsOfPair(p[1], p[2])
                   certs == signatures[p[2]].certificates
               IN /\ Len(cs) <= Len(certs)
                  /\ \A n \in 1..Len(cs) :
                        /\ cs[n].certificate = n
                        /\ cs[n].function = "verify_certificate"
                        /\ cs[n].arguments[1] = certs[n]
                        /\ ~cs[n].ok => n = Len(cs)
                  /\ Responded =>
                        IF FirstFailure(cs) = 0
                        THEN Len(cs) = Len(certs)
                        ELSE /\ Len(cs) = FirstFailure(cs)
                             /\ ~Response.accepted
                             /\ \E n \in 1..Len(policy_verification_errors) :
                                   policy_verification_errors[n] =
                                      VerificationError(ImageAt(p[1]), <<"error">>)

\* a list of two or more certificates whose first certificate fails
C8_Witness ==
    /\ Scanned
    /\ \E p \in Pairs :
          /\ signatures[p[2]].kind = "Certificate"
          /\ Len(signatures[p[2]].certificates) >= 2
          /\ Len(CallsOfPair(p[1], p[2])) = 1
          /\ ~CallsOfPair(p[1], p[2])[1].ok
          /\ ~Response.accepted

\* C9: a matching Certificate policy with an empty certificate list makes
\* no oracle call and yields the failure "Cannot verify", so the request
\* is rejected.
C9_EmptyCertificateList ==
    IsSome(spec) =>
        \A p \in Pairs :
            (/\ signatures[p[2]].kind = "Certificate"
             /\ signatures[p[2]].certificates = <<>>) =>
               /\ CallsOfPair(p[1], p[2]) = <<>>
               /\ Responded =>
                     /\ ~Response.accepted
                     /\ Response.mutated_object = None
                     /\ \E n \in 1..Len(policy_verification_errors) :
                           policy_verification_errors[n] =
                              VerificationError(ImageAt(p[1]), <<"Cannot verify">>)

\* an empty certificate list is the only failure of the request
C9_Witness ==
    /\ Scanned
    /\ ~Response.accepted
    /\ Len(policy_verification_errors) = 1
    /\ \A n \in 1..Len(calls) : calls[n].ok
    /\ \E p \in Pairs :
          /\ signatures[p[2]].kind = "Certificate"
          /\ signatures[p[2]].certificates = <<>>

\* C10: a request whose kind is not one of the eight supported kinds, or
\* whose object does not decode into the resource of its kind, is
\* accepted, whatever the policies and the flag, with no oracle call.
C10_FailOpen ==
    ((kind \notin SupportedKinds \/ object.shape # kind) /\ pc # "validate") =>
        /\ pc = "done"
        /\ result = Some(accept_request)
        /\ spec = None
        /\ calls = <<>>
        /\ set_spec_calls = 0

\* an object of another shape under a supported kind, with a policy and
\* mutation enabled
C10_Witness ==
    /\ Responded
    /\ kind \in SupportedKinds
    /\ object.shape # kind
    /\ signatures # <<>>
    /\ modify_images_with_digest
    /\ result = Some(accept_request)

----------------------------------------------------------------------------
(* C11..C20 *)

\* C11: a resource of a supported kind that decodes but has no pod spec
\* (an optional node on the path to it is absent) is accepted unchanged,
\* with no oracle call and no mutated object.
C11_NoSpecAccepted ==
    (/\ kind \in SupportedKinds
     /\ object.shape = kind
     /\ IsNone(SpecOf(kind, object.body))
     /\ pc # "validate") =>
        /\ pc = "done"
        /\ result = Some(accept_request)
        /\ resource = Some(object.body)
        /\ calls = <<>>
        /\ set_spec_calls = 0

\* a CronJob whose job template has no spec, with a policy and mutation
\* enabled
C11_Witness ==
    /\ Responded
    /\ kind = "CronJob"
    /\ object.shape = kind
    /\ IsSome(object.body.spec)
    /\ IsNone(Unwrap(object.body.spec).job_template.spec)
    /\ signatures # <<>>
    /\ modify_images_with_digest
    /\ result = Some(accept_request)

\* the position of a call in the scan
Location(call) ==
    <<call.coll, call.container, call.signature, call.certificate>>

\* C12: a failure never cuts the scan short: when the response is made
\* every (container, matching policy) pair has been dispatched, a pair of
\* a policy other than Certificate has exactly one call whether or not
\* earlier pairs failed, and no call is made twice.
C12_NoShortCircuit ==
    IsSome(spec) =>
        /\ \A m \in 1..Len(calls), n \in 1..Len(calls) :
              m # n => Location(calls[m]) # Location(calls[n])
        /\ \A p \in Pairs :
              LET cs == CallsOfPair(p[1], p[2])
              IN IF signatures[p[2]].kind = "Certificate"
                 THEN (Responded /\ signatures[p[2]].certificates # <<>>) =>
                         Len(cs) >= 1
                 ELSE Len(cs) <= 1 /\ (Responded => Len(cs) = 1)

\* the first call fails, and calls for another container and for another
\* policy follow before the reject
C12_Witness ==
    /\ Scanned
    /\ ~Response.accepted
    /\ Len(calls) >= 3
    /\ ~calls[1].ok
    /\ \E n \in 2..Len(calls) : calls[n].container # calls[1].container
    /\ \E n \in 2..Len(calls) :
          /\ calls[n].coll = calls[1].coll
          /\ calls[n].container = calls[1].container
          /\ calls[n].signature # calls[1].signature

\* pair p is met before pair q: by collection, then container index, then
\* policy index
Before(p, q) ==
    \/ p[1][1] < q[1][1]
    \/ p[1][1] = q[1][1] /\ p[1][2] < q[1][2]
    \/ p[1] = q[1] /\ p[2] < q[2]

\* the pairs of a set in the order they are met
RECURSIVE InOrder(_)
InOrder(S) ==
    IF S = {} THEN <<>>
    ELSE LET first == CHOOSE p \in S : \A q \in S : q = p \/ Before(p, q)
         IN <<first>> \o InOrder(S \ {first})

\* the cause of the failure of a pair
CauseOf(p) ==
    IF /\ signatures[p[2]].kind = "Certificate"
       /\ signatures[p[2]].certificates = <<>>
    THEN <<"Cannot verify">>
    ELSE <<"error">>

\* one entry per failing pair, in the order the pairs are met
ExpectedErrors ==
    LET failing == InOrder({p \in Pairs : ~PairVerified(p[1], p[2])})
    IN [n \in 1..Len(failing) |->
           VerificationError(ImageAt(failing[n][1]), CauseOf(failing[n]))]

\* C13: on reject the error list has exactly one entry per failing
\* (container, matching policy) pair, naming the image and the cause, in
\* the order primary, init, ephemeral containers, then container index,
\* then policy order; the reject message carries them all.
C13_ErrorOrder ==
    Scanned =>
        /\ policy_verification_errors = ExpectedErrors
        /\ ~Response.accepted =>
              Response.message =
                 Some(RejectMessage(name(Unwrap(resource)),
                                    Join(ExpectedErrors, <<", ">>)))

\* failures in two collections with different entries
C13_Witness ==
    /\ Scanned
    /\ ~Response.accepted
    /\ Len(policy_verification_errors) >= 2
    /\ policy_verification_errors[1] # policy_verification_errors[2]
    /\ \E p \in Pairs, q \in Pairs :
          /\ p[1][1] # q[1][1]
          /\ ~PairVerified(p[1], p[2])
          /\ ~PairVerified(q[1], q[2])

\* the certificate positions of the calls of policy s: 0 for the one call
\* of a policy other than Certificate
CertificatePositions(s) ==
    IF signatures[s].kind = "Certificate"
    THEN 1..Len(signatures[s].certificates)
    ELSE {0}

\* the positions at which a call can be made for the request
Locations ==
    UNION {{<<p[1][1], p[1][2], p[2], c>> : c \in CertificatePositions(p[2])} :
              p \in Pairs}

\* lexicographic order of the positions
LexLess(a, b) ==
    \E n \in 1..4 : a[n] < b[n] /\ \A m \in 1..(n - 1) : a[m] = b[m]

\* the positions of locs left for call n, given the calls before it:
\* those after call n - 1, without the rest of its pair when it failed
Remaining(locs, n) ==
    IF n = 1 THEN locs
    ELSE LET last == calls[n - 1]
         IN {l \in locs :
                /\ LexLess(Location(last), l)
                /\ ~last.ok => SubSeq(l, 1, 3) # SubSeq(Location(last), 1, 3)}

\* C14: the calls of one request are made one after the other in the
\* order collection (primary, init, ephemeral), container index, matching
\* policy in configured order, certificate index; each call is the first
\* position left by the request and the answers before it, so the same
\* request and answers give the same sequence of calls.
C14_CallOrder ==
    IsSome(spec) =>
        LET locs == Locations
        IN /\ \A n \in 1..Len(calls) :
                 /\ LET left == Remaining(locs, n)
                    IN /\ Location(calls[n]) \in left
                       /\ \A l \in left :
                             l = Location(calls[n])
                                \/ LexLess(Location(calls[n]), l)
                 /\ calls[n].image = ImageAt(<<calls[n].coll, calls[n].container>>)
                 /\ calls[n].function = OracleFunction(signatures[calls[n].signature])
                 /\ calls[n].arguments =
                       OracleArguments(signatures[calls[n].signature],
                                       calls[n].certificate)
           /\ Responded => Remaining(locs, Len(calls) + 1) = {}

\* two certificates tried for an init container, then for an ephemeral
\* container
C14_Witness ==
    /\ Scanned
    /\ Len(calls) = 4
    /\ calls[1].coll = 2
    /\ calls[2].certificate = 2
    /\ calls[3].coll = 3
    /\ calls[4].certificate = 2

\* C15: a container without an image does not make the engine fault: no
\* oracle call is made for it and the request still gets a response.
C15_AbsentImageTolerated ==
    (IsSome(spec) /\ \E sl \in Slots(SubmittedSpec) : ~HasImage(sl)) =>
        /\ pc # "panic"
        /\ \A n \in 1..Len(calls) :
              HasImage(<<calls[n].coll, calls[n].container>>)

\* the decision and the message as the request and the oracle's answers
\* give them, without the flag
Decision ==
    IF IsNone(spec) \/ \A p \in Pairs : PairVerified(p[1], p[2])
    THEN [accepted |-> TRUE, message |-> None]
    ELSE [accepted |-> FALSE,
          message |-> Some(<<"Resource ">> \o name(object.body)
                             \o <<" is not accepted: ">>
                             \o Join(ExpectedErrors, <<", ">>))]

\* C16: verify-only mode does not weaken verification: the decision, the
\* reject message and the sequence of calls are given by the request
\* without the flag and the oracle's answers, so they are the same for
\* both values of modify_images_with_digest; the flag decides only whether
\* a mutated object is attached to an accept.
C16_VerifyOnlyEquivalent ==
    Responded =>
        /\ [accepted |-> Response.accepted, message |-> Response.message] = Decision
        /\ IsNone(spec) => calls = <<>>
        /\ IsSome(spec) =>
              LET locs == Locations
              IN /\ \A n \in 1..Len(calls) :
                       LET left == Remaining(locs, n)
                       IN /\ Location(calls[n]) \in left
                          /\ \A l \in left : ~LexLess(l, Location(calls[n]))
                 /\ Remaining(locs, Len(calls) + 1) = {}
        /\ IsSome(Response.mutated_object) =>
              Response.accepted /\ modify_images_with_digest
        /\ ~modify_images_with_digest => Response.mutated_object = None

\* a reject in verify-only mode, after an image was rewritten in the
\* working copy
C16_Witness ==
    /\ Scanned
    /\ ~modify_images_with_digest
    /\ ~Response.accepted
    /\ is_modified_with_digest
    /\ calls # <<>>

\* C17 as stated: the glob of a policy is matched against the image the
\* working copy of the container holds when the policy is evaluated.
C17_Original ==
    pc = "signature" =>
        Matches(signatures[j], Unwrap(WorkingContainer(<<coll, i>>).image))

\* C17 (amended): the glob of a policy is matched against the image of
\* the container as submitted, whatever digest earlier policies have
\* appended to the working copy: a policy is dispatched for a container
\* if and only if its glob matches the submitted image.
C17_MatchesSubmittedImage ==
    /\ pc = "signature" => Matches(signatures[j], ImageAt(<<coll, i>>))
    /\ Scanned =>
          \A sl \in Slots(SubmittedSpec), s \in 1..Len(signatures) :
              CertificatePositions(s) # {} =>
                 (CallsOfPair(sl, s) # <<>> <=>
                     Matches(signatures[s], ImageAt(sl)))

\* the second policy is dispatched although its glob does not match the
\* image the first policy has pinned
C17_Witness ==
    /\ Scanned
    /\ \E sl \in Slots(SubmittedSpec) :
          /\ Len(signatures) = 2
          /\ CallsOfPair(sl, 1) # <<>>
          /\ CallsOfPair(sl, 2) # <<>>
          /\ PairVerified(sl, 1)
          /\ verified[sl] # <<>>
          /\ ~Contains(ImageAt(sl), verified[sl][1].digest)
          /\ ~Matches(signatures[2],
                      Pinned(ImageAt(sl), verified[sl][1].digest))

\* patterns and texts on which the matcher is compared with Glob
GlobPatterns ==
    Patterns \cup {<<"*">>, <<"*", "a">>, <<"n", "*", "a">>, <<"@">>, <<>>}

GlobTexts ==
    Images \cup {<<>>, <<"a">>, <<"n", "a">>, <<"n", "n">>, <<"a", "n">>}

\* whole-string matching of a pattern with at most one '*': without a
\* wildcard the pattern is the text; with one, the text starts with what
\* precedes the '*' and, after that, ends with what follows it
Glob(pattern, text) ==
    LET stars == {q \in 1..Len(pattern) : pattern[q] = "*"}
    IN IF stars = {} THEN pattern = text
       ELSE LET q == CHOOSE q \in stars : TRUE
                pre == SubSeq(pattern, 1, q - 1)
                post == SubSeq(pattern, q + 1, Len(pattern))
            IN /\ Len(text) >= Len(pre) + Len(post)
               /\ SubSeq(text, 1, Len(pre)) = pre
               /\ SubSeq(text, Len(text) - Len(post) + 1, Len(text)) = post

\* policy s was dispatched for the container at sl
Dispatched(sl, s) == CallsOfPair(sl, s) # <<>>

\* the policy has no call to make
WithoutCall(s) == CertificatePositions(s) = {}

\* C18: a policy applies to a container if and only if its glob matches
\* the whole image reference: a pattern without wildcard applies only to
\* the identical string, never to one that contains or starts with it,
\* and '*' matches any sequence of characters, the empty one included.
C18_WholeStringGlob ==
    /\ pc = "validate" =>
          \A pattern \in GlobPatterns, text \in GlobTexts :
              WildMatches(pattern, text) <=> Glob(pattern, text)
    /\ IsSome(spec) =>
          \A n \in 1..Len(calls) :
              Glob(signatures[calls[n].signature].image, calls[n].image)
    /\ Scanned =>
          /\ \A sl \in Slots(SubmittedSpec), s \in 1..Len(signatures) :
                ~WithoutCall(s) =>
                   (Dispatched(sl, s) <=> Glob(signatures[s].image, ImageAt(sl)))
          /\ \A image \in Images :
                Cardinality({n \in 1..Len(policy_verification_errors) :
                    policy_verification_errors[n] =
                       VerificationError(image, <<"Cannot verify">>)})
                = Cardinality({p \in Slots(SubmittedSpec) \X (1..Len(signatures)) :
                    /\ WithoutCall(p[2])
                    /\ ImageAt(p[1]) = image
                    /\ Glob(signatures[p[2]].image, image)})

\* a pattern without wildcard left aside for an image that starts with
\* it, next to a '*' that matched the empty sequence
C18_Witness ==
    /\ Scanned
    /\ \E sl \in Slots(SubmittedSpec), s \in 1..Len(signatures) :
          /\ signatures[s].image = <<"n">>
          /\ ImageAt(sl) = <<"n", "@", "a">>
          /\ ~Dispatched(sl, s)
    /\ \E sl \in Slots(SubmittedSpec), s \in 1..Len(signatures) :
          /\ signatures[s].image = <<"n", "*">>
          /\ ImageAt(sl) = <<"n">>
          /\ Dispatched(sl, s)

\* the pod spec of a resource of kind kd, read at the nesting path of the
\* kind; every node on the path is present
PodSpecAt(kd, body) ==
    CASE kd = "Pod" -> body.spec
      [] kd \in {"Deployment", "StatefulSet", "DaemonSet", "Job"} ->
            Unwrap(body.spec).template.spec
      [] kd \in {"ReplicaSet", "ReplicationController"} ->
            Unwrap(Unwrap(body.spec).template).spec
      [] kd = "CronJob" ->
            Unwrap(Unwrap(body.spec).job_template.spec).template.spec

SomeDigestMissing ==
    \E sl \in Slots(SubmittedSpec) : \E n \in 1..Len(verified[sl]) :
        ~Contains(ImageAt(sl), verified[sl][n].digest)

\* C20: with an empty error list verify_all_images_in_pod returns a pod
\* spec if and only if one of the container lists differs by value from
\* the submitted one; when no image changed (no policy matched, the digest
\* is part of the image, or the digest is empty) it returns none and the
\* request is accepted without mutated object, mutation enabled or not.
C20_SpecReturnedIffChanged ==
    (Scanned /\ policy_verification_errors = <<>>) =>
        /\ is_modified_with_digest <=>
              \E c \in 1..3 : CollectionOf(spec_images_with_digest, c) #
                                 CollectionOf(SubmittedSpec, c)
        /\ is_modified_with_digest <=> SomeDigestMissing
        /\ ~SomeDigestMissing =>
              /\ spec_images_with_digest = SubmittedSpec
              /\ result = Some(accept_request)
              /\ set_spec_calls = 0
        /\ (is_modified_with_digest /\ modify_images_with_digest) =>
              /\ IsSome(Response.mutated_object)
              /\ ReturnedSpec = spec_images_with_digest

\* mutation is enabled, one container got an empty digest and another a
\* digest its image contains
C20_Witness ==
    /\ Scanned
    /\ policy_verification_errors = <<>>
    /\ modify_images_with_digest
    /\ result = Some(accept_request)
    /\ \E sl \in Slots(SubmittedSpec), tl \in Slots(SubmittedSpec) :
          /\ verified[sl] # <<>>
          /\ verified[tl] # <<>>
          /\ LastDigest(sl) = <<>>
          /\ LastDigest(tl) # <<>>

----------------------------------------------------------------------------
(* C21..C25 *)

\* the outcome the oracle returned to the latest call
LatestOutcome == Unwrap(Unwrap(last_answer).value)

\* C21: a Certificate policy whose certificates all verify makes one call
\* per certificate, in list order, each with the image, the chain, the
\* rekor-bundle flag and the annotations of the policy; the pair is one
\* success, and the outcome handled for it, whose digest pins the image,
\* is the one returned for the last certificate.
C21_CertificateAllPass ==
    IsSome(spec) =>
        \A p \in Pairs :
            LET cs == CallsOfPair(p[1], p[2])
                policy == signatures[p[2]]
            IN (/\ policy.kind = "Certificate"
                /\ policy.certificates # <<>>
                /\ PairVerified(p[1], p[2])) =>
                  /\ \A n \in 1..Len(cs) :
                        /\ cs[n].certificate = n
                        /\ cs[n].function = "verify_certificate"
                        /\ cs[n].image = ImageAt(p[1])
                        /\ cs[n].arguments =
                              <<policy.certificates[n], policy.certificate_chain,
                                policy.require_rekor_bundle, policy.annotations>>
                  /\ Location(calls[Len(calls)]) =
                        <<p[1][1], p[1][2], p[2], Len(policy.certificates)>> =>
                        /\ verified[p[1]] # <<>>
                        /\ verified[p[1]][Len(verified[p[1]])] = LatestOutcome
                        /\ ~Contains(ImageAt(p[1]), LatestOutcome.digest) =>
                              WorkingContainer(p[1]).image =
                                 Some(Pinned(ImageAt(p[1]), LatestOutcome.digest))
                  /\ Responded =>
                        Len(verified[p[1]]) =
                           Cardinality({s \in MatchingPolicies(p[1]) :
                                           PairVerified(p[1], s)})

\* the second of two certificates was the latest call, and its digest
\* pins the image
C21_Witness ==
    /\ Scanned
    /\ Response.accepted
    /\ \E p \in Pairs :
          /\ signatures[p[2]].kind = "Certificate"
          /\ Len(signatures[p[2]].certificates) = 2
          /\ PairVerified(p[1], p[2])
          /\ Location(calls[Len(calls)]) = <<p[1][1], p[1][2], p[2], 2>>
          /\ LatestOutcome.digest # <<>>
          /\ WorkingContainer(p[1]).image =
                Some(Pinned(ImageAt(p[1]), LatestOutcome.digest))

\* every optional node on the path from the resource to its pod spec is
\* present
PathPresent(kd, body) ==
    CASE kd = "Pod" -> TRUE
      [] kd \in {"Deployment", "StatefulSet", "DaemonSet", "Job"} ->
            IsSome(body.spec)
      [] kd \in {"ReplicaSet", "ReplicationController"} ->
            IsSome(body.spec) /\ IsSome(Unwrap(body.spec).template)
      [] kd = "CronJob" ->
            IsSome(body.spec) /\ IsSome(Unwrap(body.spec).job_template.spec)

\* C22: set_spec is reached only when spec() returned a pod spec, no
\* error was recorded, some image changed and mutation is enabled; every
\* node on the path of the kind is then present, so that the unwraps of
\* set_spec do not fault; set_spec is never invoked on a reject or on a
\* plain accept.
C22_SetSpecReachability ==
    /\ set_spec_calls <= 1
    /\ IsSome(spec) =>
          /\ PathPresent(kind, object.body)
          /\ ~SetSpecFaults(kind, object.body)
    /\ set_spec_calls = 1 =>
          /\ IsSome(spec)
          /\ policy_verification_errors = <<>>
          /\ spec_images_with_digest # SubmittedSpec
          /\ modify_images_with_digest
          /\ Responded
          /\ IsSome(Response.mutated_object)
    /\ (Responded /\ Response.mutated_object = None) => set_spec_calls = 0
    /\ pc = "panic" => set_spec_calls = 0

\* set_spec was invoked on a ReplicaSet, whose template is optional
C22_Witness ==
    /\ set_spec_calls = 1
    /\ kind = "ReplicaSet"
    /\ Responded
    /\ IsSome(Response.mutated_object)

\* the answer to the latest call was handed to
\* handle_verification_response: the call was the one call of its policy,
\* or the call for its last certificate, or a failed call
LatestHandled ==
    /\ calls # <<>>
    /\ LET last == calls[Len(calls)]
       IN \/ ~last.ok
          \/ last.certificate = 0
          \/ last.certificate = Len(signatures[last.signature].certificates)

\* C23: the decision depends only on whether each call returned an
\* outcome or failed; is_trusted is never read: an outcome with
\* is_trusted = FALSE records no error and its digest pins the image,
\* like a trusted one.
C23_TrustFlagIgnored ==
    IsSome(spec) =>
        /\ (LatestHandled /\ calls[Len(calls)].ok /\ ~LatestOutcome.is_trusted) =>
              LET last == calls[Len(calls)]
                  sl == <<last.coll, last.container>>
              IN /\ verified[sl] # <<>>
                 /\ verified[sl][Len(verified[sl])] = LatestOutcome
                 /\ ~Contains(ImageAt(sl), LatestOutcome.digest) =>
                       WorkingContainer(sl).image =
                          Some(Pinned(ImageAt(sl), LatestOutcome.digest))
        /\ Responded =>
              /\ Len(policy_verification_errors) =
                    Cardinality({n \in 1..Len(calls) : ~calls[n].ok})
                    + Cardinality({p \in Pairs : WithoutCall(p[2])})
              /\ Response.accepted <=>
                    /\ \A n \in 1..Len(calls) : calls[n].ok
                    /\ \A p \in Pairs : ~WithoutCall(p[2])

\* an accept whose returned image is pinned to the digest of an outcome
\* that was not trusted
C23_Witness ==
    /\ Scanned
    /\ Response.accepted
    /\ IsSome(Response.mutated_object)
    /\ calls # <<>>
    /\ ~LatestOutcome.is_trusted
    /\ LET last == calls[Len(calls)]
       IN ContainerAt(ReturnedSpec, <<last.coll, last.container>>).image =
             Some(Pinned(last.image, LatestOutcome.digest))

\* the outcomes handled for the container at sl whose digest is not part
\* of its submitted image, in order
NewDigests(sl) ==
    SelectSeq(verified[sl], LAMBDA v : ~Contains(ImageAt(sl), v.digest))

\* C24: every call and every digest append for a container uses its
\* submitted image r, not the image of the working copy: the working
\* image is r, or r@d for one digest d, never r@d1@d2; d is the digest of
\* the last succeeding matching policy whose digest is not part of r, so
\* a later different digest replaces an earlier one.
C24_PinnedFromSubmittedImage ==
    IsSome(spec) =>
        /\ \A n \in 1..Len(calls) :
              calls[n].image = ImageAt(<<calls[n].coll, calls[n].container>>)
        /\ \A sl \in Slots(SubmittedSpec) :
              HasImage(sl) =>
                 LET new == NewDigests(sl)
                 IN /\ WorkingContainer(sl).image =
                          IF new = <<>> THEN Some(ImageAt(sl))
                          ELSE Some(Pinned(ImageAt(sl), new[Len(new)].digest))
                    /\ \A d1 \in Digests, d2 \in Digests :
                          (~Contains(ImageAt(sl), d1) /\ ~Contains(ImageAt(sl), d2)) =>
                             WorkingContainer(sl).image #
                                Some(Pinned(Pinned(ImageAt(sl), d1), d2))

\* a container pinned by a first policy and then by a second to another
\* digest, which is the one returned
C24_Witness ==
    /\ Scanned
    /\ IsSome(Response.mutated_object)
    /\ \E sl \in Slots(SubmittedSpec) :
          /\ Len(NewDigests(sl)) = 2
          /\ NewDigests(sl)[1].digest # NewDigests(sl)[2].digest
          /\ ContainerAt(ReturnedSpec, sl).image =
                Some(Pinned(ImageAt(sl), NewDigests(sl)[2].digest))

\* the image of the container at sl in the returned resource
ReturnedImage(sl) == Unwrap(ContainerAt(ReturnedSpec, sl).image)

\* the digests to which a container of the request was pinned to give
\* the reference x of the returned resource
PinOf(x) ==
    {d \in Digests :
        \E sl \in Slots(SubmittedSpec) :
            /\ ReturnedImage(sl) = x
            /\ x # ImageAt(sl)
            /\ x = Pinned(ImageAt(sl), d)}

\* the oracle of the second admission: for a pinned reference the digest
\* it was pinned to; for any other reference the digest d0 if the
\* reference carries it, else the empty digest
SecondAnswer(x, d0) ==
    Ok(VerificationResponse(TRUE,
          IF PinOf(x) # {} THEN CHOOSE d \in PinOf(x) : TRUE
          ELSE IF Contains(x, d0) THEN d0
          ELSE <<>>))

\* validate_resource on the returned resource, from the point where it
\* is decoded
SecondStart ==
    [Locals EXCEPT !.pc = "spec",
                   !.resource = Some(Unwrap(Response.mutated_object).body),
                   !.spec = None,
                   !.response = None,
                   !.set_spec_calls = 0,
                   !.result = None]

\* the second admission from st to its end, each call answered by
\* SecondAnswer
RECURSIVE Readmit(_, _)
Readmit(st, d0) ==
    IF AwaitsOracle(st)
    THEN LET answer == SecondAnswer(ContainerImage(st), d0)
         IN Readmit(Run(IF signatures[st.j].kind = "Certificate"
                        THEN CertificateAnswered(st, answer)
                        ELSE Handle(st, answer)),
                    d0)
    ELSE st

Readmission(d0) == Readmit(Run(SecondStart), d0)

\* C25: re-admission is a fixpoint: the resource returned with an accept
\* with mutation, submitted again with the same policies and an oracle
\* that returns for each pinned reference the digest it was pinned to, is
\* accepted with no mutated object and no image gains a second digest,
\* whether or not the patterns still match the pinned references.
C25_ReadmissionFixpoint ==
    (Responded /\ IsSome(Response.mutated_object)) =>
        \A d0 \in Digests :
            LET second == Readmission(d0)
            IN /\ second.pc = "done"
               /\ second.result = Some(accept_request)
               /\ second.spec = Some(ReturnedSpec)
               /\ second.spec_images_with_digest = ReturnedSpec
               /\ second.policy_verification_errors = <<>>
               /\ second.set_spec_calls = 0

\* of the two policies that pinned a container, one still matches the
\* pinned reference and is answered again, the other matches no more
C25_Witness ==
    /\ Responded
    /\ IsSome(Response.mutated_object)
    /\ Len(signatures) = 2
    /\ \E sl \in Slots(SubmittedSpec) :
          /\ ReturnedImage(sl) # ImageAt(sl)
          /\ MatchingPolicies(sl) = {1, 2}
          /\ \E s \in 1..2 : Matches(signatures[s], ReturnedImage(sl))
          /\ \E s \in 1..2 : ~Matches(signatures[s], ReturnedImage(sl))
          /\ Readmission(<<>>).verified[sl] # <<>>
          /\ Readmission(<<>>).result = Some(accept_request)

=============================================================================
